---- MODULE Spec2Model ----
(***************************************************************************)
(* Model of generate_report (src/main.py): a one-shot pipeline that        *)
(* fetches failed_logs.xlsx from a Drive folder, aggregates it, renders a  *)
(* chart and a PDF to fixed paths under /tmp and publishes the PDF as      *)
(* failed_logs_report.pdf in the same folder.                              *)
(*                                                                         *)
(* Strings are TLA+ strings, so str.split, " ".join, slicing and           *)
(* concatenation are computed character by character.  Files (the two      *)
(* local temp files and the remote report files) hold the identifier of    *)
(* the run whose data they were written from.                              *)
(***************************************************************************)
EXTENDS Integers, Sequences, FiniteSets, TLC

----------------------------------------------------------------------------
(* Bounds *)

\* rows of a spreadsheet handled by a full pipeline run
MaxRunRows == 1
\* rows of a spreadsheet handed to the aggregation alone
MaxRows == 3
\* rows of a spreadsheet handed to the report text assembly alone
MaxTextRows == 2
\* invocations of the entry point in one behaviour
MaxRuns == 2
\* whitespace-separated tokens in the long dataset name
LongTokens == 100
\* whitespace-separated tokens in the long reason text
LongReasonTokens == 40

----------------------------------------------------------------------------
(* Program constants *)

\* words = summary_text.split(); if len(words) > 300
WordCap == 300
\* str(row['reason'])[:60]
ReasonCap == 60
\* by_dataset.head(5), df[[...]].head(5)
TopN == 5

NULL == "<NaN>"
None == "<none>"
NoDate == 0

----------------------------------------------------------------------------
(* Python string primitives *)

Min(a, b) == IF a < b THEN a ELSE b

\* s[:n]
Slice(s, n) == SubSeq(s, 1, Min(n, Len(s)))

\* seq[:n]
HeadN(seq, n) == SubSeq(seq, 1, Min(n, Len(seq)))

IsSpace(c) == c \in {" ", "\n", "\t"}

\* str.split() with no argument: the maximal runs of non-whitespace
\* characters of s[lo..hi], in order.  Halving keeps the recursion shallow.
RECURSIVE SplitRange(_, _, _)
SplitRange(s, lo, hi) ==
    IF lo > hi THEN << >>
    ELSE IF lo = hi
         THEN IF IsSpace(SubSeq(s, lo, lo)) THEN << >> ELSE << SubSeq(s, lo, lo) >>
    ELSE LET mid == (lo + hi) \div 2
             L == SplitRange(s, lo, mid)
             R == SplitRange(s, mid + 1, hi)
             glue == /\ ~IsSpace(SubSeq(s, mid, mid))
                     /\ ~IsSpace(SubSeq(s, mid + 1, mid + 1))
         IN IF glue
            THEN SubSeq(L, 1, Len(L) - 1)
                   \o << L[Len(L)] \o R[1] >>
                   \o SubSeq(R, 2, Len(R))
            ELSE L \o R

Split(s) == SplitRange(s, 1, Len(s))

\* sep.join(seq[lo..hi])
RECURSIVE JoinRange(_, _, _, _)
JoinRange(seq, sep, lo, hi) ==
    IF lo > hi THEN ""
    ELSE IF lo = hi THEN seq[lo]
    ELSE LET mid == (lo + hi) \div 2
         IN JoinRange(seq, sep, lo, mid) \o sep \o JoinRange(seq, sep, mid + 1, hi)

Join(seq, sep) == JoinRange(seq, sep, 1, Len(seq))

Digits == << "0", "1", "2", "3", "4", "5", "6", "7", "8", "9" >>

\* str(n) for a non-negative integer
RECURSIVE IntStr(_)
IntStr(n) == IF n < 10 THEN Digits[n + 1]
             ELSE IntStr(n \div 10) \o Digits[(n % 10) + 1]

\* str(v) of a cell: NaN prints as "nan"
CellStr(v) == IF v = NULL THEN "nan" ELSE v

\* str(Timestamp) of day d; NoDate is the NaN an empty column's max() gives
DateStr(d) == IF d = NoDate THEN "nan" ELSE "2024-01-0" \o IntStr(d) \o " 00:00:00"

RECURSIVE Repeat(_, _)
Repeat(s, n) == IF n = 0 THEN "" ELSE s \o Repeat(s, n - 1)

----------------------------------------------------------------------------
(* Input domain *)

\* a dataset name of LongTokens words
LongDataset == "d" \o Repeat(" d", LongTokens - 1)
\* a reason of LongReasonTokens one-letter words
LongReason == "e" \o Repeat(" e", LongReasonTokens - 1)

Required == << "dataset", "reason", "date" >>
RequiredSet == {Required[k] : k \in 1..Len(Required)}

Datasets == {"x", LongDataset, NULL}
Reasons == {"timeout", LongReason, NULL}
Dates == {1, 2}

RunDatasets == {"x", NULL}
RunReasons == {"timeout", NULL}
RunDates == {1}

\* the rows a sheet with columns cols can hold: one cell per column
RowsOver(cols, ds, rs, dts) ==
    {[c \in cols |-> r[c]] : r \in [dataset : ds, reason : rs, date : dts]}

SeqsUpTo(S, n) == UNION {[1..k -> S] : k \in 0..n}

\* a DataFrame: its column set and its rows in sheet order
Frames(cols, ds, rs, dts, n) ==
    {[columns |-> cols, rows |-> rows] :
        rows \in SeqsUpTo(RowsOver(cols, ds, rs, dts), n)}

RunFrames == UNION {Frames(cols, RunDatasets, RunReasons, RunDates, MaxRunRows) :
                      cols \in SUBSET RequiredSet}
FullFrames == Frames(RequiredSet, Datasets, Reasons, Dates, MaxRows)
TextFrames == Frames(RequiredSet, Datasets, Reasons, {1}, MaxTextRows)

\* the sheets of the overlapping invocations: no row or one, or no date column
ConcFrames == Frames(RequiredSet, {"x"}, {"timeout"}, {1}, 1)
                \cup Frames({"dataset", "reason"}, {"x"}, {"timeout"}, {1}, 0)

NoFrame == [columns |-> {}, rows |-> << >>]

----------------------------------------------------------------------------
(* Aggregation: lines 76-80 *)

\* df[c]
Column(df, c) == [k \in 1..Len(df.rows) |-> df.rows[k][c]]

\* number of cells of col equal to v
Count(col, v) == Cardinality({k \in 1..Len(col) : col[k] = v})

\* Series.isnull().all()
AllNull(col) == \A k \in 1..Len(col) : col[k] = NULL

\* the labels Series.value_counts() reports: NaN cells are dropped
Labels(col) == {col[k] : k \in 1..Len(col)} \ {NULL}

\* Series.value_counts(): one (value, count) entry per label, sorted by
\* descending count; the order among equal counts is the library's choice
ValueCounts(col) ==
    LET n == Cardinality(Labels(col))
        orders == {o \in [1..n -> Labels(col)] :
                     /\ \A a, b \in 1..n : a # b => o[a] # o[b]
                     /\ \A a \in 1..n : a < n =>
                            Count(col, o[a]) >= Count(col, o[a + 1])}
    IN {[k \in 1..n |-> [value |-> o[k], count |-> Count(col, o[k])]] :
            o \in orders}

\* Series.idxmin() in place of idxmax(): the first position holding the minimum
IdxMin(vc) ==
    LET worst == CHOOSE k \in 1..Len(vc) :
                    /\ \A j \in 1..Len(vc) : vc[j].count >= vc[k].count
                    /\ \A j \in 1..(k - 1) : vc[j].count > vc[k].count
    IN vc[worst].value

\* Series.idxmax(): the label at the first position holding the maximum
IdxMax(vc) ==
    LET best == CHOOSE k \in 1..Len(vc) :
                    /\ \A j \in 1..Len(vc) : vc[j].count <= vc[k].count
                    /\ \A j \in 1..(k - 1) : vc[j].count < vc[k].count
    IN vc[best].value

\* df['reason'].value_counts().idxmax() if not df['reason'].isnull().all() else "N/A"
MostCommon(col) ==
    IF ~AllNull(col) THEN {IdxMax(vc) : vc \in ValueCounts(col)} ELSE {"N/A"}

\* Series.max(): NaN for an empty column
ColMax(col) ==
    IF Len(col) = 0 THEN NoDate
    ELSE CHOOSE m \in {col[k] : k \in 1..Len(col)} :
             \A k \in 1..Len(col) : col[k] <= m

\* df[['date', 'dataset', 'reason']].head(5)
RecentFailures(df) == HeadN(df.rows, TopN)

\* every summary lines 76-80 can compute from df
Summaries(df) ==
    {[total_failures |-> Len(df.rows),
      by_dataset |-> by,
      most_common_error |-> mc,
      most_recent |-> ColMax(Column(df, "date")),
      recent_failures |-> RecentFailures(df)] :
        by \in ValueCounts(Column(df, "dataset")),
        mc \in MostCommon(Column(df, "reason"))}

NoSummary == [total_failures |-> 0, by_dataset |-> << >>,
              most_common_error |-> None, most_recent |-> NoDate,
              recent_failures |-> << >>]

----------------------------------------------------------------------------
(* Summary text: lines 93-113 *)

DatasetLine(e) == "  - " \o e.value \o ": " \o IntStr(e.count)

RecentLine(row) ==
    "  - Date: " \o DateStr(row["date"])
        \o ", Dataset: " \o CellStr(row["dataset"])
        \o ", Reason: " \o Slice(CellStr(row["reason"]), ReasonCap) \o "..."

SummaryLines(sm) ==
    << "Failed Query Log Report",
       "Total failed queries: " \o IntStr(sm.total_failures),
       "Most recent failure: " \o DateStr(sm.most_recent),
       "",
       "Failures by dataset (top 5):" >>
    \o [k \in 1..Len(HeadN(sm.by_dataset, TopN)) |-> DatasetLine(sm.by_dataset[k])]
    \o << "",
          "Most common error: " \o sm.most_common_error,
          "",
          "Recent failures (top 5):" >>
    \o [k \in 1..Len(sm.recent_failures) |-> RecentLine(sm.recent_failures[k])]

\* "\n".join(summary_lines)
Assembled(sm) == Join(SummaryLines(sm), "\n")

\* the slice words[:301] in place of words[:300]
CapWordsOffByOne(text) ==
    LET words == Split(text)
    IN IF Len(words) > WordCap
       THEN Join(HeadN(words, WordCap + 1), " ") \o "..."
       ELSE text

\* lines 111-113
CapWords(text) ==
    LET words == Split(text)
    IN IF Len(words) > WordCap
       THEN Join(HeadN(words, WordCap), " ") \o "..."
       ELSE text

----------------------------------------------------------------------------
(* The pipeline: generate_report, lines 12-162 *)

\* concurrent executions of the entry point on one host
Invs == {1, 2}

\* identifiers the store can give a report file
FileIds == {"r1", "r2"}

\* os.environ.get("GOOGLE_SERVICE_ACCOUNT_JSON"): unset, empty, not JSON,
\* JSON that is no service-account key, a usable key
EnvJson == {None, "", "not json", "{}", "{key}"}
\* os.environ.get("DRIVE_FOLDER_ID")
EnvFolder == {None, "", "folder"}

\* json.loads succeeds
JsonLoads(v) == v \in {"{}", "{key}"}
\* Credentials.from_service_account_info succeeds
CredentialsOk(v) == v = "{key}"
\* Python truthiness of an Optional[str]
Truthy(v) == v # None /\ v # ""

\* what files().list can return for failed_logs.xlsx
InputListings == {<< >>, << "in1" >>, << "in1", "in2" >>}

MsgEnvMissing ==
    "Error: Required environment variables (GOOGLE_SERVICE_ACCOUNT_JSON, DRIVE_FOLDER_ID) are missing."
MsgEnvParse == "Error: Failed to parse GOOGLE_SERVICE_ACCOUNT_JSON: "
MsgNotFound == "No failed_logs.xlsx found in Drive folder."
MsgMissingColumn == "Error: Required column missing: "
MsgException == "Error generating PDF report: "
MsgSuccess == "PDF report generated and uploaded to Drive."

NoResponse == [text |-> None, status |-> 0]

\* A PDF holds the numbers of the runs whose text and whose chart it shows;
\* a chart image holds the number of the run that drew it.
\* chart_path does not exist; a PDF without an image
NoChart == -1
\* a path or file identifier that does not exist
NoFile == [text |-> -1, chart |-> -1]
\* a report published before the first run
Stale == [text |-> 0, chart |-> 0]

VARIABLES
    pc,            \* pc[i]: the last step invocation i completed
    response,      \* response[i]: the (text, status) invocation i returned
    loc,           \* loc[i]: the local variables of invocation i
    run,           \* run[i]: number of the run invocation i is executing
    cause,         \* cause[i]: the return statement that produced the response
    uploaded,      \* uploaded[i]: the content invocation i sent to the store
    before,        \* before[i]: the report files when invocation i began
    overlapped,    \* overlapped[i]: another invocation ran during this one
    chartFile,     \* /tmp/failures_by_dataset.png
    pdfFile,       \* /tmp/failed_logs_report.pdf
    reports,       \* the live failed_logs_report.pdf files of the folder
    nruns          \* invocations so far

ghosts == << cause, uploaded, before, overlapped >>
files == << chartFile, pdfFile, reports >>
vars == << pc, response, loc, run, nruns, ghosts, files >>

\* the locals of a frame that has not assigned any:
\*   df            the parsed DataFrame (line 64)
\*   summary       the aggregates of lines 76-80
\*   summary_text  the text written into the PDF (lines 110-113)
\*   media         content of pdf_path when line 134 opened it
\*   report_files  the listing of line 140
NoLocals == [df |-> NoFrame, summary |-> NoSummary, summary_text |-> None,
             media |-> NoFile, report_files |-> << >>]

Terminal == {"done", "failed"}
Active(i) == pc[i] \notin Terminal \cup {"idle"}

\* live report files
Live(rs) == {f \in FileIds : rs[f] # NoFile}

InitFiles ==
    /\ chartFile = NoChart
    /\ pdfFile = NoFile
    /\ reports \in {[f \in FileIds |-> NoFile],
                    [f \in FileIds |-> IF f = "r1" THEN Stale ELSE NoFile],
                    [f \in FileIds |-> Stale]}

Init ==
    /\ InitFiles
    /\ pc = [i \in Invs |-> "idle"]
    /\ response = [i \in Invs |-> NoResponse]
    /\ loc = [i \in Invs |-> NoLocals]
    /\ run = [i \in Invs |-> 0]
    /\ cause = [i \in Invs |-> None]
    /\ uploaded = [i \in Invs |-> NoFile]
    /\ before = [i \in Invs |-> reports]
    /\ overlapped = [i \in Invs |-> FALSE]
    /\ nruns = 0

\* a return statement: the invocation ends with (text, status) and its
\* frame is gone
Return(i, text, status, why) ==
    /\ pc' = [pc EXCEPT ![i] = IF status = 200 THEN "done" ELSE "failed"]
    /\ response' = [response EXCEPT ![i] = [text |-> text, status |-> status]]
    /\ cause' = [cause EXCEPT ![i] = why]
    /\ loc' = [loc EXCEPT ![i] = NoLocals]

\* lines 160-162: any exception raised inside the try block
Except(i, e) == Return(i, MsgException \o e, 500, "exception")

\* the step completed and assigned locals
Goto(i, step, locals) ==
    /\ pc' = [pc EXCEPT ![i] = step]
    /\ loc' = [loc EXCEPT ![i] = locals]
    /\ UNCHANGED << response, cause >>

\* an HTTP request reaches the entry point: line 12
Invoke(i) ==
    /\ ~Active(i)
    /\ nruns < MaxRuns
    /\ nruns' = nruns + 1
    /\ run' = [run EXCEPT ![i] = nruns + 1]
    /\ pc' = [pc EXCEPT ![i] = "start"]
    /\ response' = [response EXCEPT ![i] = NoResponse]
    /\ loc' = [loc EXCEPT ![i] = NoLocals]
    /\ cause' = [cause EXCEPT ![i] = None]
    /\ uploaded' = [uploaded EXCEPT ![i] = NoFile]
    /\ before' = [before EXCEPT ![i] = reports]
    /\ overlapped' = [j \in Invs |->
                        IF j = i THEN \E k \in Invs \ {i} : Active(k)
                        ELSE overlapped[j] \/ Active(j)]
    /\ UNCHANGED files

\* Step 1, lines 18-31
LoadCredentials(i) ==
    /\ pc[i] = "start"
    /\ \E service_account_json \in EnvJson, folder_id \in EnvFolder :
          IF ~Truthy(service_account_json) \/ ~Truthy(folder_id)
          THEN Return(i, MsgEnvMissing, 500, "env-missing")
          ELSE IF ~JsonLoads(service_account_json)
          THEN Return(i, MsgEnvParse \o "Expecting value", 500, "env-unparseable")
          ELSE IF ~CredentialsOk(service_account_json)
          THEN Except(i, "missing fields")
          ELSE Goto(i, "credentials-loaded", loc[i])
    /\ UNCHANGED << run, nruns, uploaded, before, overlapped, files >>

\* Step 2, lines 34-35
BuildService(i) ==
    /\ pc[i] = "credentials-loaded"
    /\ \/ Goto(i, "service-ready", loc[i])
       \/ Except(i, "build failed")
    /\ UNCHANGED << run, nruns, uploaded, before, overlapped, files >>

\* the empty listing answered with status 500 in place of 404
LocateInputWrongStatus(i) ==
    /\ pc[i] = "service-ready"
    /\ \/ \E listing \in InputListings :
             IF listing = << >>
             THEN Return(i, MsgNotFound, 500, "not-found")
             ELSE Goto(i, "input-located", loc[i])
       \/ Except(i, "list failed")
    /\ UNCHANGED << run, nruns, uploaded, before, overlapped, files >>

\* Step 3, lines 38-48
LocateInput(i) ==
    /\ pc[i] = "service-ready"
    /\ \/ \E listing \in InputListings :
             IF listing = << >>
             THEN Return(i, MsgNotFound, 404, "not-found")
             ELSE Goto(i, "input-located", loc[i])
       \/ Except(i, "list failed")
    /\ UNCHANGED << run, nruns, uploaded, before, overlapped, files >>

\* a failed download sent back to the lookup in place of the except clause
DownloadRetries(i) ==
    /\ pc[i] = "input-located"
    /\ \/ Goto(i, "input-downloaded", loc[i])
       \/ Goto(i, "service-ready", loc[i])
    /\ UNCHANGED << run, nruns, uploaded, before, overlapped, files >>

\* Step 4, lines 51-60
Download(i) ==
    /\ pc[i] = "input-located"
    /\ \/ Goto(i, "input-downloaded", loc[i])
       \/ Except(i, "download failed")
    /\ UNCHANGED << run, nruns, uploaded, before, overlapped, files >>

\* Step 5, lines 63-65: the sheet parses to one of frames, or read_excel raises
Parse(i, frames) ==
    /\ pc[i] = "input-downloaded"
    /\ \/ \E f \in frames : Goto(i, "parsed", [loc[i] EXCEPT !.df = f])
       \/ Except(i, "not an Excel file")
    /\ UNCHANGED << run, nruns, uploaded, before, overlapped, files >>

\* the loop of lines 69-72 run over reversed(required_cols)
FirstMissingReversed(columns, k) ==
    LET missing == {j \in k..Len(Required) : Required[j] \notin columns}
    IN IF missing = {} THEN None
       ELSE Required[CHOOSE j \in missing : \A m \in missing : m <= j]

\* the first col of required_cols with col not in df.columns, None if all are
\* present: the loop of lines 69-72
RECURSIVE FirstMissing(_, _)
FirstMissing(columns, k) ==
    IF k > Len(Required) THEN None
    ELSE IF Required[k] \notin columns THEN Required[k]
    ELSE FirstMissing(columns, k + 1)

\* Step 6, lines 67-72
Validate(i) ==
    /\ pc[i] = "parsed"
    /\ LET col == FirstMissing(loc[i].df.columns, 1)
       IN IF col # None
          THEN Return(i, MsgMissingColumn \o col, 500, "missing-column")
          ELSE Goto(i, "validated", loc[i])
    /\ UNCHANGED << run, nruns, uploaded, before, overlapped, files >>

\* Step 7, lines 75-80
Summarize(i) ==
    /\ pc[i] = "validated"
    /\ \E sm \in Summaries(loc[i].df) :
          Goto(i, "summarized", [loc[i] EXCEPT !.summary = sm])
    /\ UNCHANGED << run, nruns, uploaded, before, overlapped, files >>

\* the chart saved only when chart_path does not exist yet
RenderKeepsOldChart(i) ==
    /\ pc[i] = "summarized"
    /\ \/ /\ chartFile' = IF chartFile = NoChart THEN run[i] ELSE chartFile
          /\ Goto(i, "rendered", loc[i])
       \/ /\ Except(i, "render failed")
          /\ UNCHANGED chartFile
    /\ UNCHANGED << run, nruns, uploaded, before, overlapped, pdfFile, reports >>

\* lines 82-91: plot by_dataset and save it to chart_path, or pyplot raises
Render(i) ==
    /\ pc[i] = "summarized"
    /\ \/ /\ chartFile' = run[i]
          /\ Goto(i, "rendered", loc[i])
       \/ /\ Except(i, "render failed")
          /\ UNCHANGED chartFile
    /\ UNCHANGED << run, nruns, uploaded, before, overlapped, pdfFile, reports >>

\* lines 93-126: assemble and cap the text, write the PDF with the chart
\* found at chart_path (none if the path does not exist), or FPDF raises
Compose(i) ==
    /\ pc[i] = "rendered"
    /\ \/ /\ pdfFile' = [text |-> run[i], chart |-> chartFile]
          /\ Goto(i, "composed",
                  [loc[i] EXCEPT !.summary_text = CapWords(Assembled(loc[i].summary))])
       \/ /\ Except(i, "compose failed")
          /\ UNCHANGED pdfFile
    /\ UNCHANGED << run, nruns, uploaded, before, overlapped, chartFile, reports >>

\* every order in which files().list can return the live report files
Listings(rs) ==
    LET n == Cardinality(Live(rs))
    IN {l \in [1..n -> Live(rs)] : \A a, b \in 1..n : a # b => l[a] # l[b]}

\* lines 129-140: open pdf_path for upload and look for an existing report
LocateReport(i) ==
    /\ pc[i] = "composed"
    /\ \/ \E l \in Listings(reports) :
             Goto(i, "report-located",
                  [loc[i] EXCEPT !.media = pdfFile, !.report_files = l])
       \/ Except(i, "list failed")
    /\ UNCHANGED << run, nruns, uploaded, before, overlapped, files >>

\* files().update(fileId=report_id, media_body=media)
Update(rs, report_id, content) == [rs EXCEPT ![report_id] = content]

\* files().create(body=file_metadata, media_body=media): a new identifier
Create(rs, content) ==
    {[rs EXCEPT ![f] = content] : f \in FileIds \ Live(rs)}

\* update/create applied first and a later statement of the try block raising
UploadPartial(i) ==
    /\ pc[i] = "report-located"
    /\ \E content \in {loc[i].media, pdfFile} :
          /\ IF loc[i].report_files # << >>
             THEN reports' = Update(reports, loc[i].report_files[1], content)
             ELSE reports' \in Create(reports, content)
          /\ \/ /\ uploaded' = [uploaded EXCEPT ![i] = content]
                /\ Goto(i, "published", loc[i])
             \/ /\ Except(i, "upload failed")
                /\ UNCHANGED uploaded
    /\ UNCHANGED << run, nruns, before, overlapped, chartFile, pdfFile >>

\* the create branch taken whether or not a report was found
UploadAlwaysCreates(i) ==
    /\ pc[i] = "report-located"
    /\ \/ \E content \in {loc[i].media, pdfFile} :
             /\ reports' \in Create(reports, content)
             /\ uploaded' = [uploaded EXCEPT ![i] = content]
             /\ Goto(i, "published", loc[i])
       \/ /\ Except(i, "upload failed")
          /\ UNCHANGED << reports, uploaded >>
    /\ UNCHANGED << run, nruns, before, overlapped, chartFile, pdfFile >>

\* lines 141-156: send the bytes of pdf_path, read through the handle opened
\* at line 134 while the upload runs, or the request raises and changes nothing
Upload(i) ==
    /\ pc[i] = "report-located"
    /\ \/ \E content \in {loc[i].media, pdfFile} :
             /\ IF loc[i].report_files # << >>
                THEN reports' = Update(reports, loc[i].report_files[1], content)
                ELSE reports' \in Create(reports, content)
             /\ uploaded' = [uploaded EXCEPT ![i] = content]
             /\ Goto(i, "published", loc[i])
       \/ /\ Except(i, "upload failed")
          /\ UNCHANGED << reports, uploaded >>
    /\ UNCHANGED << run, nruns, before, overlapped, chartFile, pdfFile >>

\* line 158
Finish(i) ==
    /\ pc[i] = "published"
    /\ Return(i, MsgSuccess, 200, "success")
    /\ UNCHANGED << run, nruns, uploaded, before, overlapped, files >>

Step(i, frames) ==
    \/ LoadCredentials(i)
    \/ BuildService(i)
    \/ LocateInput(i)
    \/ Download(i)
    \/ Parse(i, frames)
    \/ Validate(i)
    \/ Summarize(i)
    \/ Render(i)
    \/ Compose(i)
    \/ LocateReport(i)
    \/ Upload(i)
    \/ Finish(i)

\* one invocation at a time: a request is served after the previous returned
InvokeAlone(i) == (\A j \in Invs : ~Active(j)) /\ Invoke(i)

Next == \E i \in {1} : InvokeAlone(i) \/ Step(i, RunFrames)

Spec == Init /\ [][Next]_vars

\* invocations of the same host overlapping freely
NextConc == \E i \in Invs : Invoke(i) \/ Step(i, ConcFrames)

SpecConc == Init /\ [][NextConc]_vars

\* invocation 1 has parsed and validated one of frames on a fresh host
InitValidated(frames) ==
    /\ chartFile = NoChart
    /\ pdfFile = NoFile
    /\ reports = [f \in FileIds |-> NoFile]
    /\ pc = [i \in Invs |-> IF i = 1 THEN "validated" ELSE "idle"]
    /\ response = [i \in Invs |-> NoResponse]
    /\ \E f \in frames :
          loc = [i \in Invs |-> IF i = 1 THEN [NoLocals EXCEPT !.df = f] ELSE NoLocals]
    /\ run = [i \in Invs |-> IF i = 1 THEN 1 ELSE 0]
    /\ cause = [i \in Invs |-> None]
    /\ uploaded = [i \in Invs |-> NoFile]
    /\ before = [i \in Invs |-> reports]
    /\ overlapped = [i \in Invs |-> FALSE]
    /\ nruns = 1

\* the aggregation alone: a validated sheet of up to MaxRows rows goes
\* through lines 75-91
InitAgg == InitValidated(FullFrames)

NextAgg == \E i \in {1} : Summarize(i) \/ Render(i)

\* the report text alone: a validated sheet of up to MaxTextRows rows goes
\* through lines 75-126
InitText == InitValidated(TextFrames)

NextText == \E i \in {1} : Summarize(i) \/ Render(i) \/ Compose(i)

SpecText == InitText /\ [][NextText]_vars

SpecAgg == InitAgg /\ [][NextAgg]_vars

----------------------------------------------------------------------------
(* Properties *)

Started == {i \in Invs : run[i] > 0}

Steps == << "start", "credentials-loaded", "service-ready", "input-located",
            "input-downloaded", "parsed", "validated", "summarized",
            "rendered", "composed", "published", "done" >>

\* position in Steps of the step a program counter lies in; the listing of
\* the existing report belongs to the publishing that follows composed
StepIndex(p) ==
    LET step == IF p = "report-located" THEN "composed" ELSE p
    IN CHOOSE k \in 1..Len(Steps) : Steps[k] = step

AfterValidation == {"validated", "summarized", "rendered", "composed",
                    "report-located", "published", "done"}
AfterSummarize == AfterValidation \ {"validated"}
AfterCompose == {"composed", "report-located", "published"}

\* the PDF a run composes from its own rows and its own chart
Own(i) == [text |-> run[i], chart |-> run[i]]

\* C1: every invocation ends with one (text, status) response; the status
\* is 200 exactly when the whole pipeline succeeded (the report was
\* uploaded), 404 exactly when the lookup of failed_logs.xlsx returned no
\* file, and 500 for every other failure; there is no other status.
ResponseContract ==
    \A i \in Started :
        /\ pc[i] \in Terminal <=> response[i] # NoResponse
        /\ pc[i] \in Terminal =>
             /\ response[i].status \in {200, 404, 500}
             /\ response[i].status = 200 <=>
                   (cause[i] = "success" /\ pc[i] = "done" /\ uploaded[i] # NoFile)
             /\ response[i].status = 404 <=> cause[i] = "not-found"
             /\ response[i].status = 500 <=>
                   cause[i] \in {"env-missing", "env-unparseable",
                                 "missing-column", "exception"}

ResponseContractWitness ==
    \E i \in Started :
        /\ pc[i] = "failed"
        /\ response[i] = [text |-> MsgNotFound, status |-> 404]

\* C2: a run that reports failure leaves the report files of the folder,
\* set and content, as they were when it began, whatever step failed; the
\* folder changes only in a run that completed every step before the upload.
NoArtifactOnFailure ==
    \A i \in Started :
        /\ pc[i] = "failed" => reports = before[i]
        /\ reports # before[i] => pc[i] \in {"published", "done"}

NoArtifactOnFailureWitness ==
    \E i \in Started :
        /\ pc[i] = "failed"
        /\ response[i].text = MsgException \o "upload failed"
        /\ Live(reports) # {}

\* C3: publishing never duplicates the report: while a report file exists
\* the set of report files never changes (the upload updates an existing
\* identifier), an empty folder gets at most one file, and a successful run
\* that began with at most one report file ends with exactly one.
ReportNeverDuplicated ==
    /\ [][/\ Live(reports) # {} => Live(reports') = Live(reports)
          /\ Cardinality(Live(reports')) <= Cardinality(Live(reports)) + 1
          /\ \A f \in Live(reports) :
                reports'[f] # reports[f] =>
                    \E i \in Started : loc[i].report_files # << >>
                                        /\ loc[i].report_files[1] = f]_vars
    /\ [](\A i \in Started :
            pc[i] = "done" /\ Cardinality(Live(before[i])) <= 1
                => Cardinality(Live(reports)) = 1)

ReportNeverDuplicatedWitness ==
    \E i \in Started :
        /\ pc[i] = "done"
        /\ run[i] = 2
        /\ before[i] # [f \in FileIds |-> NoFile]
        /\ Cardinality(Live(reports)) = 1
        /\ \E f \in FileIds : reports[f] = Own(i)

\* the first missing required column, by position in the required order
FirstAbsent(columns) ==
    Required[CHOOSE k \in 1..Len(Required) :
                /\ Required[k] \notin columns
                /\ \A j \in 1..(k - 1) : Required[j] \in columns]

\* C4: a parsed table lacking a required column makes the run fail at once
\* with status 500 and a message naming the first missing column in the
\* order dataset, reason, date, leaving every file as it was; only a table
\* with all three columns gets past validation.
MissingColumnFails ==
    /\ [][\A i \in Started :
            pc[i] = "parsed" /\ pc'[i] # "parsed" =>
                IF RequiredSet \subseteq loc[i].df.columns
                THEN pc'[i] = "validated"
                ELSE /\ pc'[i] = "failed"
                     /\ response'[i] =
                          [text |-> MsgMissingColumn \o FirstAbsent(loc[i].df.columns),
                           status |-> 500]
                     /\ UNCHANGED files]_vars
    /\ [](\A i \in Started :
            pc[i] \in AfterValidation \ {"done"} =>
                RequiredSet \subseteq loc[i].df.columns)

MissingColumnFailsWitness ==
    \E i \in Started :
        /\ pc[i] = "failed"
        /\ cause[i] = "missing-column"
        /\ response[i] = [text |-> MsgMissingColumn \o "reason", status |-> 500]

\* C5: a run goes through the steps start, credentials-loaded, ..., published,
\* done in that order, one at a time, never back; a failure goes straight to
\* failed; done is reached only after the upload completed, with status 200.
LinearPipeline ==
    /\ [][\A i \in Invs :
            pc'[i] # pc[i] =>
                IF ~Active(i) THEN pc'[i] = "start"
                ELSE \/ pc'[i] = "failed"
                     \/ /\ pc'[i] \notin {"failed", "idle"}
                        /\ StepIndex(pc'[i]) - StepIndex(pc[i]) \in {0, 1}]_vars
    /\ [](\A i \in Started :
            pc[i] = "done" =>
                /\ response[i].status = 200
                /\ uploaded[i] # NoFile
                /\ \E f \in FileIds : reports[f] = uploaded[i])

LinearPipelineWitness ==
    \E i \in Started : pc[i] = "done" /\ reports # before[i]

\* sum of the counts of a value_counts() result
RECURSIVE SumCounts(_, _)
SumCounts(vc, k) == IF k > Len(vc) THEN 0 ELSE vc[k].count + SumCounts(vc, k + 1)

\* C6: the per-dataset counts sum to total, the number of rows, also when
\* some rows have a null dataset.
ByDatasetSumsToTotal ==
    \A i \in Started :
        pc[i] \in AfterSummarize =>
            /\ loc[i].summary.total_failures = Len(loc[i].df.rows)
            /\ SumCounts(loc[i].summary.by_dataset, 1) = loc[i].summary.total_failures

\* C7: most_common_reason is "N/A" if every reason is null; otherwise it is
\* the reason whose frequency is strictly higher than that of every other
\* non-null reason.
MostCommonStrictlyHighest ==
    \A i \in Started :
        pc[i] \in AfterSummarize =>
            LET col == Column(loc[i].df, "reason")
                mc == loc[i].summary.most_common_error
            IN IF AllNull(col) THEN mc = "N/A"
               ELSE /\ mc \in Labels(col)
                    /\ \A v \in Labels(col) \ {mc} : Count(col, v) < Count(col, mc)

\* C7 as amended: most_common_reason is "N/A" if every reason is null;
\* otherwise it is a non-null reason that no other reason exceeds in
\* frequency.
MostCommonHighest ==
    \A i \in Started :
        pc[i] \in AfterSummarize =>
            LET col == Column(loc[i].df, "reason")
                mc == loc[i].summary.most_common_error
            IN IF AllNull(col) THEN mc = "N/A"
               ELSE /\ mc \in Labels(col)
                    /\ \A v \in Labels(col) : Count(col, v) <= Count(col, mc)

MostCommonHighestWitness ==
    \E i \in Started :
        /\ pc[i] = "summarized"
        /\ LET col == Column(loc[i].df, "reason")
           IN /\ Count(col, loc[i].summary.most_common_error) = 2
              /\ Cardinality(Labels(col)) = 2

\* C8: the text put in the PDF has at most 300 whitespace-separated tokens:
\* an assembled text of more than 300 tokens becomes its first 300 tokens
\* joined by blanks followed by "...", a shorter one is left as it is.
SummaryCapped ==
    \A i \in Started :
        pc[i] \in AfterCompose =>
            LET text == Assembled(loc[i].summary)
                words == Split(text)
                final == loc[i].summary_text
            IN /\ Len(Split(final)) <= WordCap
               /\ Len(words) > WordCap =>
                    final = Join(SubSeq(words, 1, WordCap), " ") \o "..."
               /\ Len(words) <= WordCap => final = text

SummaryCappedWitness ==
    \E i \in Started :
        /\ pc[i] = "composed"
        /\ Len(Split(Assembled(loc[i].summary))) > WordCap
        /\ Len(Split(loc[i].summary_text)) = WordCap

\* C9: a failure of the chart rendering does not end the run in the failed
\* state.
RenderFailureTolerated ==
    \A i \in Started :
        ~(pc[i] = "failed" /\ response[i].text = MsgException \o "render failed")

====
